---- MODULE Spec2Model ----
(***************************************************************************)
(* Model of the XBee AT-command baud reconfiguration sketch                *)
(* (libraries/XBee/XBee_AT_SerialBreak/XBee_AT_SerialBreak.ino).           *)
(*                                                                         *)
(* The sketch is one thread of control; pc is its position.  The           *)
(* environment is the millisecond clock (Tick) and the modem, which puts   *)
(* bytes into the transport's receive queue (Deliver).                     *)
(*                                                                         *)
(* Bytes are ASCII codes: "AT" is <<65, 84>>, carriage return is 13.       *)
(* Milliseconds() and msLastCmd are uint32_t; TLC's integers are 32-bit    *)
(* signed, so a uint32 is kept as two 16-bit limbs [hi, lo] and the        *)
(* arithmetic is done modulo 2^32 limb by limb.                            *)
(***************************************************************************)
EXTENDS Integers, Sequences, FiniteSets, TLC

VARIABLES
    pc,         \* position of the sketch
    step,       \* the step of DeviceSpeed in progress
    hostBaud,   \* ClearCore::XBee.Speed(): the host transport's baud rate
    speed,      \* DeviceSpeed's local: the rate read at entry
    baudRate,   \* DeviceSpeed's local: the device code of the rate
    sendStr,    \* global char sendStr[10], as its string content
    rspStr,     \* global char rspStr[10], as its string content
    rspIndex,   \* atRspReceive's local
    msLastCmd,  \* global uint32_t msLastCmd
    now,        \* what Milliseconds() returns
    breakOn,    \* the transport's break line
    rxFifo,     \* bytes the transport holds for reading
    sent,       \* every byte given to ClearCore::XBee.Send, in order
    failLog,    \* the steps exitFail was called for, in order
    outcome,    \* per step: how its exchange ended
    consumed,   \* bytes CharGet returned in the current atRspReceive call
    sinceCmd,   \* true ms since msLastCmd was last assigned (-1: never)
    delivered,  \* number of replies the modem has produced
    entryBaud,  \* the host baud rate when DeviceSpeed was entered
    rspLen,     \* atRspReceive's parameter: the capacity of rsp
    brk,        \* the break line so far: times asserted, ms held asserted
    \* the 16-positions sketch (Abs16PositionsHomeToHardStop.ino)
    mpc,         \* position of the sketch in MoveToPosition
    positionNum, \* MoveToPosition's parameter
    i,           \* MoveToPosition's loop counter
    inA,         \* motor.MotorInAState
    inB,         \* motor.MotorInBState
    hlfb,        \* the motor's HLFB line
    hlfbRead,    \* what motor.HlfbState() last returned to the sketch
    wire,        \* every change of input A or B, in order
    ret,         \* what MoveToPosition returned
    \* the two-axis sketch (DualAxisSynchronized.ino)
    dpc,           \* position of the sketch in loop and SynchronizedMove
    calls,         \* calls of SynchronizedMove made so far
    enable,        \* per motor: the last EnableRequest
    hlfbLine,      \* per motor: its HLFB line
    stepsDone,     \* per motor: what StepsComplete() returns
    issued,        \* every Move command, as <<motor, distance>>, in order
    sawDeasserted  \* the shutdown test has read HLFB_DEASSERTED

motorVars == <<mpc, positionNum, i, inA, inB, hlfb, hlfbRead, wire, ret>>

dualVars == <<dpc, calls, enable, hlfbLine, stepsDone, issued, sawDeasserted>>

vars == <<pc, step, hostBaud, speed, baudRate, sendStr, rspStr, rspIndex,
          msLastCmd, now, breakOn, rxFifo, sent, failLog, outcome, consumed,
          sinceCmd, delivered, entryBaud, rspLen, brk, motorVars, dualVars>>

----------------------------------------------------------------------------
(* Program constants *)

TIMEOUT == 10000

rspStrSize == 10

BREAK_HOLD_MS == 6000

SETTLE_MS == 1

EXIT_FAIL_MS == 600

DEFAULT_AT_BAUD == 9600

CR == 13

OK_MSG == <<79, 75>>

ERR_MSG == <<69, 82, 82, 79, 82>>

AT_CMD == <<65, 84>>

ATBD_PREFIX == <<65, 84, 66, 68, 32>>

ATWR_CMD == <<65, 84, 87, 82>>

ATCN_CMD == <<65, 84, 67, 78>>

----------------------------------------------------------------------------
(* Bounds of the model *)

\* replies the modem produces in one attempt
MaxReplies == 4

----------------------------------------------------------------------------
(* uint32_t arithmetic on two 16-bit limbs *)

W16 == 2 ^ 16

U32(h, l) == [hi |-> h, lo |-> l]

U32Add(t, d) ==
    LET s == t.lo + d
    IN  [hi |-> (t.hi + (s \div W16)) % W16, lo |-> s % W16]

\* a difference that is zero when the counter reads less than the stamp
U32Sub_Clamped(a, b) ==
    IF a.hi < b.hi \/ (a.hi = b.hi /\ a.lo < b.lo)
    THEN [hi |-> 0, lo |-> 0]
    ELSE LET borrow == IF a.lo < b.lo THEN 1 ELSE 0
         IN  [hi |-> a.hi - b.hi - borrow,
              lo |-> (a.lo - b.lo + W16) % W16]

U32Sub(a, b) ==
    LET borrow == IF a.lo < b.lo THEN 1 ELSE 0
    IN  [hi |-> (a.hi - b.hi - borrow + W16) % W16,
         lo |-> (a.lo - b.lo + W16) % W16]

\* (Milliseconds() - msLastCmd), the uint32 difference
Elapsed == U32Sub(now, msLastCmd)

U32Gt(x, n) == x.hi > 0 \/ x.lo > n

U32Lt(x, n) == x.hi = 0 /\ x.lo < n

----------------------------------------------------------------------------
(* The steps of DeviceSpeed *)

Steps == <<"ForceMode", "VerifyMode", "ApplyBaud", "Persist", "ExitMode">>

StepSet == {Steps[k] : k \in 1..Len(Steps)}

CmdSteps == {"VerifyMode", "ApplyBaud", "Persist", "ExitMode"}

SupportedRates ==
    {2400, 4800, 9600, 19200, 38400, 57600, 115200, 230400, 460800, 921600}

\* a switch whose last case repeats the code of the one before it
BaudCode_RepeatedCase(r) ==
    CASE r = 2400   -> 49
      [] r = 4800   -> 50
      [] r = 9600   -> 51
      [] r = 19200  -> 52
      [] r = 38400  -> 53
      [] r = 57600  -> 54
      [] r = 115200 -> 55
      [] r = 230400 -> 56
      [] r = 460800 -> 57
      [] r = 921600 -> 57
      [] OTHER      -> 48

\* the switch of DeviceSpeed: the device code, '0' when there is none
BaudCode(r) ==
    CASE r = 2400   -> 49
      [] r = 4800   -> 50
      [] r = 9600   -> 51
      [] r = 19200  -> 52
      [] r = 38400  -> 53
      [] r = 57600  -> 54
      [] r = 115200 -> 55
      [] r = 230400 -> 56
      [] r = 460800 -> 57
      [] r = 921600 -> 65
      [] OTHER      -> 48

\* whether the switch takes its default branch
BaudInvalid(r) ==
    r \notin SupportedRates

\* the commands with ATCN before ATWR
CmdOf_ExitBeforePersist(s) ==
    CASE s = "VerifyMode" -> AT_CMD
      [] s = "ApplyBaud"  -> sendStr
      [] s = "Persist"    -> ATCN_CMD
      [] s = "ExitMode"   -> ATWR_CMD
      [] OTHER            -> <<>>

\* the command each dispatching step passes to atCommandSend
CmdOf(s) ==
    CASE s = "VerifyMode" -> AT_CMD
      [] s = "ApplyBaud"  -> sendStr
      [] s = "Persist"    -> ATWR_CMD
      [] s = "ExitMode"   -> ATCN_CMD
      [] OTHER            -> <<>>

\* strcmp(rspStr, OK_MSG) != 0
NotOk(s) == s # OK_MSG

Range(q) == {q[k] : k \in 1..Len(q)}

----------------------------------------------------------------------------
(* The transport, as the sketch uses it *)

AvailableForRead == Len(rxFifo)

CharGet == Head(rxFifo)

----------------------------------------------------------------------------
(* Inputs *)

\* the host rate at entry: supported ones, the AT default, an unsupported one
EntryRates == {9600, 19200, 12345}

\* Milliseconds() at entry: early after boot, and shortly before the wrap
StartTimes == {U32(0, 1000), U32(W16 - 1, 50000)}

\* what the modem may put on the line at a time
Replies ==
    { <<79, 75, 13>>,                                   \* OK\r
      <<79, 75>>,                                       \* OK, no terminator
      <<69, 82, 82, 79, 82, 13>>,                       \* ERROR\r
      <<13>>,                                           \* \r
      <<49, 50, 51, 52, 53, 54, 55, 56, 57, 13>>,       \* 123456789\r
      <<49, 50, 51, 52, 53, 54, 55, 56, 57, 48, 13>> }  \* 1234567890\r

\* how far the clock moves between two looks at it
TickSet == {5000}

----------------------------------------------------------------------------
\* the 16-positions sketch is not running
MotorIdle ==
    /\ mpc = "idle"
    /\ positionNum = 0
    /\ i = 0
    /\ inA = FALSE
    /\ inB = FALSE
    /\ hlfb = "deasserted"
    /\ hlfbRead = "none"
    /\ wire = <<>>
    /\ ret = "none"

\* the two-axis sketch is not running
DualIdle ==
    /\ dpc = <<"idle", 0>>
    /\ calls = 0
    /\ enable = [m \in {0, 1} |-> FALSE]
    /\ hlfbLine = [m \in {0, 1} |-> "deasserted"]
    /\ stepsDone = [m \in {0, 1} |-> TRUE]
    /\ issued = <<>>
    /\ sawDeasserted = FALSE

Init ==
    /\ pc = "ds_entry"
    /\ step = "ForceMode"
    /\ hostBaud \in EntryRates
    /\ entryBaud = hostBaud
    /\ speed = 0
    /\ baudRate = 48
    /\ sendStr = <<>>
    /\ rspStr = <<>>
    /\ rspIndex = 0
    /\ msLastCmd = U32(0, 0)
    /\ now \in StartTimes
    /\ breakOn = FALSE
    /\ rxFifo = <<>>
    /\ sent = <<>>
    /\ failLog = <<>>
    /\ outcome = [s \in StepSet |-> "none"]
    /\ consumed = <<>>
    /\ sinceCmd = -1
    /\ delivered = 0
    /\ rspLen = rspStrSize
    /\ brk = [asserts |-> 0, held |-> 0]
    /\ MotorIdle
    /\ DualIdle

----------------------------------------------------------------------------
(* Time *)

\* the clock moves on by d ms
Advance(d) ==
    /\ now' = U32Add(now, d)
    /\ sinceCmd' = IF sinceCmd < 0 THEN sinceCmd ELSE sinceCmd + d
    /\ brk' = IF breakOn THEN [brk EXCEPT !.held = @ + d] ELSE brk

\* msLastCmd = Milliseconds()
Stamp(t) ==
    /\ msLastCmd' = t
    /\ sinceCmd' = 0

\* exitFail(message): report the step, delay(600)
ExitFail(tag) ==
    /\ failLog' = Append(failLog, tag)
    /\ Advance(EXIT_FAIL_MS)

----------------------------------------------------------------------------
(* DeviceSpeed *)

\* where DeviceSpeed goes on after the strcmp of a step
AfterCheck(s) ==
    CASE s = "ForceMode"  -> [pc |-> "acs_check", step |-> "VerifyMode"]
      [] s = "VerifyMode" -> [pc |-> "ds_lookup", step |-> "VerifyMode"]
      [] s = "ApplyBaud"  -> [pc |-> "acs_check", step |-> "Persist"]
      [] s = "Persist"    -> [pc |-> "acs_check", step |-> "ExitMode"]
      [] OTHER            -> [pc |-> "ds_resync", step |-> "ExitMode"]

\* an entry that leaves the host at its own rate (no XBee.Speed(9600))
DS_Entry_KeepRate ==
    /\ pc = "ds_entry"
    /\ speed' = hostBaud
    /\ pc' = "amd_break_on"
    /\ UNCHANGED <<step, hostBaud, baudRate, sendStr, rspStr, rspIndex,
                   msLastCmd, now, breakOn, rxFifo, sent, failLog, outcome,
                   consumed, sinceCmd, delivered, entryBaud, rspLen, brk, motorVars, dualVars>>

\* uint32_t speed = XBee.Speed(); XBee.Speed(9600);
DS_Entry ==
    /\ pc = "ds_entry"
    /\ speed' = hostBaud
    /\ hostBaud' = DEFAULT_AT_BAUD
    /\ pc' = "amd_break_on"
    /\ UNCHANGED <<step, baudRate, sendStr, rspStr, rspIndex, msLastCmd, now,
                   breakOn, rxFifo, sent, failLog, outcome, consumed,
                   sinceCmd, delivered, entryBaud, rspLen, brk, motorVars, dualVars>>

\* a check that lets ForceMode pass whatever the read returned
DS_Check_NotForceMode ==
    /\ pc = "ds_check"
    /\ IF NotOk(rspStr) /\ step # "ForceMode"
       THEN ExitFail(step)
       ELSE UNCHANGED <<failLog, now, sinceCmd, brk>>
    /\ pc' = AfterCheck(step).pc
    /\ step' = AfterCheck(step).step
    /\ UNCHANGED <<hostBaud, speed, baudRate, sendStr, rspStr, rspIndex,
                   msLastCmd, breakOn, rxFifo, sent, outcome, consumed,
                   delivered, entryBaud, rspLen, motorVars, dualVars>>

\* if (strcmp(rspStr, OK_MSG)) { exitFail(...); }  after each step
DS_Check ==
    /\ pc = "ds_check"
    /\ IF NotOk(rspStr)
       THEN ExitFail(step)
       ELSE UNCHANGED <<failLog, now, sinceCmd, brk>>
    /\ pc' = AfterCheck(step).pc
    /\ step' = AfterCheck(step).step
    /\ UNCHANGED <<hostBaud, speed, baudRate, sendStr, rspStr, rspIndex,
                   msLastCmd, breakOn, rxFifo, sent, outcome, consumed,
                   delivered, entryBaud, rspLen, motorVars, dualVars>>

\* a switch on the rate the host has now, not the one read at entry
DS_Lookup_HostRate ==
    /\ pc = "ds_lookup"
    /\ baudRate' = BaudCode(hostBaud)
    /\ IF BaudInvalid(hostBaud)
       THEN /\ failLog' = Append(failLog, "InvalidBaud")
            /\ pc' = "ds_fail_wait"
       ELSE /\ pc' = "ds_build"
            /\ UNCHANGED failLog
    /\ UNCHANGED <<step, hostBaud, speed, sendStr, rspStr, rspIndex, msLastCmd,
                   now, breakOn, rxFifo, sent, outcome, consumed, sinceCmd,
                   delivered, entryBaud, rspLen, brk, motorVars, dualVars>>

\* the switch on speed; its default branch calls exitFail, which has printed
\* and is about to wait
DS_Lookup ==
    /\ pc = "ds_lookup"
    /\ baudRate' = BaudCode(speed)
    /\ IF BaudInvalid(speed)
       THEN /\ failLog' = Append(failLog, "InvalidBaud")
            /\ pc' = "ds_fail_wait"
       ELSE /\ pc' = "ds_build"
            /\ UNCHANGED failLog
    /\ UNCHANGED <<step, hostBaud, speed, sendStr, rspStr, rspIndex, msLastCmd,
                   now, breakOn, rxFifo, sent, outcome, consumed, sinceCmd,
                   delivered, entryBaud, rspLen, brk, motorVars, dualVars>>

\* delay(600) of the exitFail of the default branch, and its return
DS_FailWait ==
    /\ pc = "ds_fail_wait"
    /\ Advance(EXIT_FAIL_MS)
    /\ pc' = "ds_build"
    /\ UNCHANGED <<step, hostBaud, speed, baudRate, sendStr, rspStr, rspIndex,
                   msLastCmd, breakOn, rxFifo, sent, failLog, outcome,
                   consumed, delivered, entryBaud, rspLen, motorVars,
                   dualVars>>

\* sendStr = "ATBD " + baudRate
DS_Build ==
    /\ pc = "ds_build"
    /\ sendStr' = Append(ATBD_PREFIX, baudRate)
    /\ pc' = "acs_check"
    /\ step' = "ApplyBaud"
    /\ UNCHANGED <<hostBaud, speed, baudRate, rspStr, rspIndex, msLastCmd,
                   now, breakOn, rxFifo, sent, failLog, outcome, consumed,
                   sinceCmd, delivered, entryBaud, rspLen, brk, motorVars,
                   dualVars>>

\* a return that leaves the host at the AT default (no XBee.Speed(speed))
DS_Resync_Skip ==
    /\ pc = "ds_resync"
    /\ pc' = "done"
    /\ UNCHANGED <<step, hostBaud, speed, baudRate, sendStr, rspStr, rspIndex,
                   msLastCmd, now, breakOn, rxFifo, sent, failLog, outcome,
                   consumed, sinceCmd, delivered, entryBaud, rspLen, brk, motorVars, dualVars>>

\* XBee.Speed(speed);
DS_Resync ==
    /\ pc = "ds_resync"
    /\ hostBaud' = speed
    /\ pc' = "done"
    /\ UNCHANGED <<step, speed, baudRate, sendStr, rspStr, rspIndex, msLastCmd,
                   now, breakOn, rxFifo, sent, failLog, outcome, consumed,
                   sinceCmd, delivered, entryBaud, rspLen, brk, motorVars, dualVars>>

----------------------------------------------------------------------------
(* AtModeDefault *)

\* XBee.SerialBreak(true);
AMD_BreakOn ==
    /\ pc = "amd_break_on"
    /\ breakOn' = TRUE
    /\ brk' = [asserts |-> brk.asserts + 1, held |-> 0]
    /\ pc' = "amd_hold"
    /\ UNCHANGED <<step, hostBaud, speed, baudRate, sendStr, rspStr, rspIndex,
                   msLastCmd, now, rxFifo, sent, failLog, outcome, consumed,
                   sinceCmd, delivered, entryBaud, rspLen, motorVars, dualVars>>

\* a hold that ends a millisecond early
AMD_Hold_Short ==
    /\ pc = "amd_hold"
    /\ Advance(BREAK_HOLD_MS - 1)
    /\ pc' = "amd_break_off"
    /\ UNCHANGED <<step, hostBaud, speed, baudRate, sendStr, rspStr, rspIndex,
                   msLastCmd, breakOn, rxFifo, sent, failLog, outcome,
                   consumed, delivered, entryBaud, rspLen, motorVars, dualVars>>

\* delay(6000);
AMD_Hold ==
    /\ pc = "amd_hold"
    /\ Advance(BREAK_HOLD_MS)
    /\ pc' = "amd_break_off"
    /\ UNCHANGED <<step, hostBaud, speed, baudRate, sendStr, rspStr, rspIndex,
                   msLastCmd, breakOn, rxFifo, sent, failLog, outcome,
                   consumed, delivered, entryBaud, rspLen, motorVars, dualVars>>

\* a sequencer that goes on to the read with the break still asserted
AMD_BreakOff_Missing ==
    /\ pc = "amd_break_off"
    /\ Stamp(now)
    /\ pc' = "rsp_init"
    /\ UNCHANGED <<step, hostBaud, speed, baudRate, sendStr, rspStr, rspIndex,
                   now, breakOn, rxFifo, sent, failLog, outcome, consumed,
                   delivered, entryBaud, rspLen, brk, motorVars, dualVars>>

\* XBee.SerialBreak(false); msLastCmd = Milliseconds(); atRspReceive(...)
AMD_BreakOff ==
    /\ pc = "amd_break_off"
    /\ breakOn' = FALSE
    /\ Stamp(now)
    /\ pc' = "rsp_init"
    /\ UNCHANGED <<step, hostBaud, speed, baudRate, sendStr, rspStr, rspIndex,
                   now, rxFifo, sent, failLog, outcome, consumed, delivered,
                   entryBaud, rspLen, brk, motorVars, dualVars>>

\* a return that keeps the stamp taken at the release of the break
AMD_Settle_NoStamp ==
    /\ pc = "amd_settle"
    /\ Advance(SETTLE_MS)
    /\ pc' = "ds_check"
    /\ UNCHANGED <<step, hostBaud, speed, baudRate, sendStr, rspStr, rspIndex,
                   msLastCmd, breakOn, rxFifo, sent, failLog, outcome,
                   consumed, delivered, entryBaud, rspLen, motorVars,
                   dualVars>>

\* delay(1); msLastCmd = Milliseconds();
AMD_Settle ==
    /\ pc = "amd_settle"
    /\ now' = U32Add(now, SETTLE_MS)
    /\ Stamp(now')
    /\ pc' = "ds_check"
    /\ UNCHANGED <<step, hostBaud, speed, baudRate, sendStr, rspStr, rspIndex,
                   breakOn, rxFifo, sent, failLog, outcome, consumed,
                   delivered, entryBaud, rspLen, brk, motorVars, dualVars>>

----------------------------------------------------------------------------
(* atCommandSend *)

\* a stale check that also rejects at exactly TIMEOUT (>= for >)
IsStale_AtLimit == ~U32Lt(Elapsed, TIMEOUT)

\* (Milliseconds() - msLastCmd) > TIMEOUT
IsStale == U32Gt(Elapsed, TIMEOUT)

\* a stale return that takes a new stamp, as a retry would
ACS_Check_Restamp ==
    /\ pc = "acs_check"
    /\ IF IsStale
       THEN /\ pc' = "ds_check"
            /\ outcome' = [outcome EXCEPT ![step] = "stale"]
            /\ Stamp(now)
            /\ UNCHANGED sent
       ELSE /\ pc' = "acs_cr"
            /\ sent' = sent \o CmdOf(step)
            /\ UNCHANGED <<outcome, msLastCmd, sinceCmd>>
    /\ UNCHANGED <<step, hostBaud, speed, baudRate, sendStr, rspStr, rspIndex,
                   now, breakOn, rxFifo, failLog, consumed,
                   delivered, entryBaud, rspLen, brk, motorVars, dualVars>>

\* if (stale) return;  XBee.Send(cmd);
ACS_Check ==
    /\ pc = "acs_check"
    /\ IF IsStale
       THEN /\ pc' = "ds_check"
            /\ outcome' = [outcome EXCEPT ![step] = "stale"]
            /\ UNCHANGED sent
       ELSE /\ pc' = "acs_cr"
            /\ sent' = sent \o CmdOf(step)
            /\ UNCHANGED outcome
    /\ UNCHANGED <<step, hostBaud, speed, baudRate, sendStr, rspStr, rspIndex,
                   msLastCmd, now, breakOn, rxFifo, failLog, consumed,
                   sinceCmd, delivered, entryBaud, rspLen, brk, motorVars, dualVars>>

\* XBee.Send("\r");
ACS_SendCR ==
    /\ pc = "acs_cr"
    /\ sent' = Append(sent, CR)
    /\ pc' = "acs_stamp"
    /\ UNCHANGED <<step, hostBaud, speed, baudRate, sendStr, rspStr, rspIndex,
                   msLastCmd, now, breakOn, rxFifo, failLog, outcome, consumed,
                   sinceCmd, delivered, entryBaud, rspLen, brk, motorVars, dualVars>>

\* a dispatch that goes to the read without the stamp
ACS_Stamp_None ==
    /\ pc = "acs_stamp"
    /\ pc' = "rsp_init"
    /\ UNCHANGED <<step, hostBaud, speed, baudRate, sendStr, rspStr, rspIndex,
                   msLastCmd, now, breakOn, rxFifo, sent, failLog, outcome,
                   consumed, sinceCmd, delivered, entryBaud, rspLen, brk,
                   motorVars, dualVars>>

\* msLastCmd = Milliseconds(); atRspReceive(rsp, rspLen);
ACS_Stamp ==
    /\ pc = "acs_stamp"
    /\ Stamp(now)
    /\ pc' = "rsp_init"
    /\ UNCHANGED <<step, hostBaud, speed, baudRate, sendStr, rspStr, rspIndex,
                   now, breakOn, rxFifo, sent, failLog, outcome, consumed,
                   delivered, entryBaud, rspLen, brk, motorVars, dualVars>>

----------------------------------------------------------------------------
(* atRspReceive, called with rsp = rspStr *)

\* where the caller goes on when atRspReceive returns
AfterReader(s) == IF s = "ForceMode" THEN "amd_settle" ELSE "ds_check"

\* a reader that empties the transport before it starts
RSP_Init_Flush ==
    /\ pc = "rsp_init"
    /\ rspIndex' = 0
    /\ rspStr' = <<>>
    /\ consumed' = <<>>
    /\ rxFifo' = <<>>
    /\ outcome' = [outcome EXCEPT ![step] = "reading"]
    /\ pc' = "rsp_loop"
    /\ UNCHANGED <<step, hostBaud, speed, baudRate, sendStr, msLastCmd, now,
                   breakOn, sent, failLog, sinceCmd, delivered,
                   entryBaud, rspLen, brk, motorVars, dualVars>>

\* rspIndex = 0; rsp[rspIndex] = '\0';
RSP_Init ==
    /\ pc = "rsp_init"
    /\ rspIndex' = 0
    /\ rspStr' = <<>>
    /\ consumed' = <<>>
    /\ outcome' = [outcome EXCEPT ![step] = "reading"]
    /\ pc' = "rsp_loop"
    /\ UNCHANGED <<step, hostBaud, speed, baudRate, sendStr, msLastCmd, now,
                   breakOn, rxFifo, sent, failLog, sinceCmd, delivered,
                   entryBaud, rspLen, brk, motorVars, dualVars>>

\* a loop test that forgets the time base (Milliseconds() < TIMEOUT)
BeforeDeadline_NoBase == U32Lt(now, TIMEOUT)

\* a loop test that also goes on while bytes are waiting
BeforeDeadline_OrAvailable == U32Lt(Elapsed, TIMEOUT) \/ AvailableForRead > 0

\* (Milliseconds() - msLastCmd) < TIMEOUT
BeforeDeadline == U32Lt(Elapsed, TIMEOUT)

\* while (before the deadline) ...; after the loop: return false
RSP_Cond ==
    /\ pc = "rsp_loop"
    /\ IF BeforeDeadline
       THEN /\ pc' = "rsp_body"
            /\ UNCHANGED outcome
       ELSE /\ pc' = AfterReader(step)
            /\ outcome' = [outcome EXCEPT ![step] = "TimedOut"]
    /\ UNCHANGED <<step, hostBaud, speed, baudRate, sendStr, rspStr, rspIndex,
                   msLastCmd, now, breakOn, rxFifo, sent, failLog, consumed,
                   sinceCmd, delivered, entryBaud, rspLen, brk, motorVars, dualVars>>

\* a capacity test that is one off (rspIndex < rspLen)
HasRoom_OffByOne == rspIndex < rspLen

\* rspIndex < rspLen - 1
HasRoom == rspIndex < rspLen - 1

\* the body of the loop: one poll of the transport
RSP_Body ==
    /\ pc = "rsp_body"
    /\ IF AvailableForRead > 0 /\ HasRoom
       THEN /\ rxFifo' = Tail(rxFifo)
            /\ consumed' = Append(consumed, CharGet)
            /\ IF CharGet = CR
               THEN /\ pc' = AfterReader(step)
                    /\ outcome' = [outcome EXCEPT ![step] = "Complete"]
                    /\ UNCHANGED <<rspStr, rspIndex>>
               ELSE /\ rspStr' = Append(rspStr, CharGet)
                    /\ rspIndex' = rspIndex + 1
                    /\ pc' = "rsp_loop"
                    /\ UNCHANGED outcome
       ELSE /\ pc' = "rsp_loop"
            /\ UNCHANGED <<rxFifo, consumed, rspStr, rspIndex, outcome>>
    /\ UNCHANGED <<step, hostBaud, speed, baudRate, sendStr, msLastCmd, now,
                   breakOn, sent, failLog, sinceCmd, delivered, entryBaud, rspLen, brk, motorVars, dualVars>>

----------------------------------------------------------------------------
(* The environment *)

\* The clock moves on while the sketch is about to read it in a condition
\* (the stale check of atCommandSend, the loop test of atRspReceive).  Once
\* that condition is decided by the time passed, more time decides nothing.
Tick ==
    /\ pc \in {"acs_check", "rsp_loop"}
    /\ ~U32Gt(Elapsed, TIMEOUT)
    /\ \E d \in TickSet : Advance(d)
    /\ UNCHANGED <<pc, step, hostBaud, speed, baudRate, sendStr, rspStr,
                   rspIndex, msLastCmd, breakOn, rxFifo, sent, failLog,
                   outcome, consumed, delivered, entryBaud, rspLen, motorVars, dualVars>>

\* The modem puts a reply on the line when the line is idle.  Nothing but
\* atRspReceive reads the transport, so bytes arriving at another time are
\* the same to the sketch as bytes arriving when the next read begins.
Deliver ==
    /\ pc = "rsp_loop"
    /\ rxFifo = <<>>
    /\ delivered < MaxReplies
    /\ \E r \in Replies : rxFifo' = rxFifo \o r
    /\ delivered' = delivered + 1
    /\ UNCHANGED <<pc, step, hostBaud, speed, baudRate, sendStr, rspStr,
                   rspIndex, msLastCmd, now, breakOn, sent, failLog, outcome,
                   consumed, sinceCmd, entryBaud, rspLen, brk, motorVars, dualVars>>

----------------------------------------------------------------------------
Next ==
    \/ DS_Entry
    \/ AMD_BreakOn
    \/ AMD_Hold
    \/ AMD_BreakOff
    \/ AMD_Settle
    \/ DS_Check
    \/ DS_Lookup
    \/ DS_FailWait
    \/ DS_Build
    \/ DS_Resync
    \/ ACS_Check
    \/ ACS_SendCR
    \/ ACS_Stamp
    \/ RSP_Init
    \/ RSP_Cond
    \/ RSP_Body
    \/ Tick
    \/ Deliver

Spec == Init /\ [][Next]_vars

----------------------------------------------------------------------------
(* atRspReceive on its own: one call, as AtModeDefault makes it right after *)
(* the break, over several capacities and with a finer clock.              *)

\* capacities of rsp: none, one or two characters, and the sketch's
ReaderCaps == {1, 2, 3, rspStrSize}

TickSetFine == {4999, 5000, 5001}

InitReader ==
    /\ pc = "rsp_init"
    /\ step = "ForceMode"
    /\ hostBaud = DEFAULT_AT_BAUD
    /\ entryBaud = 19200
    /\ speed = entryBaud
    /\ baudRate = 48
    /\ sendStr = <<>>
    /\ rspStr \in {<<>>, OK_MSG}     \* what an earlier call may have left
    /\ rspIndex = 0
    /\ now \in {U32Add(t, BREAK_HOLD_MS) : t \in StartTimes}
    /\ msLastCmd = now
    /\ sinceCmd = 0
    /\ breakOn = FALSE
    /\ rxFifo = <<>>
    /\ sent = <<>>
    /\ failLog = <<>>
    /\ outcome = [s \in StepSet |-> "none"]
    /\ consumed = <<>>
    /\ delivered = 0
    /\ rspLen \in ReaderCaps
    /\ brk = [asserts |-> 1, held |-> BREAK_HOLD_MS]
    /\ MotorIdle
    /\ DualIdle

TickFine ==
    /\ pc = "rsp_loop"
    /\ ~U32Gt(Elapsed, TIMEOUT)
    /\ \E d \in TickSetFine : Advance(d)
    /\ UNCHANGED <<pc, step, hostBaud, speed, baudRate, sendStr, rspStr,
                   rspIndex, msLastCmd, breakOn, rxFifo, sent, failLog,
                   outcome, consumed, delivered, entryBaud, rspLen, motorVars, dualVars>>

NextReader ==
    \/ RSP_Init
    \/ RSP_Cond
    \/ RSP_Body
    \/ TickFine
    \/ Deliver

SpecReader == InitReader /\ [][NextReader]_vars

----------------------------------------------------------------------------
(* DeviceSpeed against a modem that answers OK, from every host rate *)

\* the host rate at entry: every rate of the switch, and one it does not have
AllRates == SupportedRates \cup {12345}

InitOk ==
    /\ pc = "ds_entry"
    /\ step = "ForceMode"
    /\ hostBaud \in AllRates
    /\ entryBaud = hostBaud
    /\ speed = 0
    /\ baudRate = 48
    /\ sendStr = <<>>
    /\ rspStr = <<>>
    /\ rspIndex = 0
    /\ msLastCmd = U32(0, 0)
    /\ now \in StartTimes
    /\ breakOn = FALSE
    /\ rxFifo = <<>>
    /\ sent = <<>>
    /\ failLog = <<>>
    /\ outcome = [s \in StepSet |-> "none"]
    /\ consumed = <<>>
    /\ sinceCmd = -1
    /\ delivered = 0
    /\ rspLen = rspStrSize
    /\ brk = [asserts |-> 0, held |-> 0]
    /\ MotorIdle
    /\ DualIdle

\* The modem answers OK and a carriage return, once, to the break or to the
\* command the sketch is waiting on; it may also stay silent.
DeliverOk ==
    /\ pc = "rsp_loop"
    /\ rxFifo = <<>>
    /\ consumed = <<>>
    /\ rxFifo' = OK_MSG \o <<CR>>
    /\ delivered' = delivered + 1
    /\ UNCHANGED <<pc, step, hostBaud, speed, baudRate, sendStr, rspStr,
                   rspIndex, msLastCmd, now, breakOn, sent, failLog, outcome,
                   consumed, sinceCmd, entryBaud, rspLen, brk, motorVars, dualVars>>

NextOk ==
    \/ DS_Entry
    \/ AMD_BreakOn
    \/ AMD_Hold
    \/ AMD_BreakOff
    \/ AMD_Settle
    \/ DS_Check
    \/ DS_Lookup
    \/ DS_FailWait
    \/ DS_Build
    \/ DS_Resync
    \/ ACS_Check
    \/ ACS_SendCR
    \/ ACS_Stamp
    \/ RSP_Init
    \/ RSP_Cond
    \/ RSP_Body
    \/ Tick
    \/ DeliverOk

SpecOk == InitOk /\ [][NextOk]_vars

----------------------------------------------------------------------------
(* DeviceSpeed with a clock that keeps advancing, against a modem that may  *)
(* answer, stream bytes with no carriage return, or say nothing            *)

\* how many times the modem puts bytes on the line in one attempt
MaxLiveReplies == 3

LiveReplies ==
    { <<79, 75, 13>>,                               \* OK\r
      <<88, 88, 88, 88, 88>>,                       \* five bytes, no terminator
      <<49, 50, 51, 52, 53, 54, 55, 56, 57, 48>> }  \* ten bytes, no terminator

InitLive ==
    /\ Init
    /\ hostBaud \in {19200, 12345}

DeliverLive ==
    /\ pc = "rsp_loop"
    /\ rxFifo = <<>>
    /\ delivered < MaxLiveReplies
    /\ \E r \in LiveReplies : rxFifo' = rxFifo \o r
    /\ delivered' = delivered + 1
    /\ UNCHANGED <<pc, step, hostBaud, speed, baudRate, sendStr, rspStr,
                   rspIndex, msLastCmd, now, breakOn, sent, failLog, outcome,
                   consumed, sinceCmd, entryBaud, rspLen, brk, motorVars, dualVars>>

\* the statements of the sketch
Sketch ==
    \/ DS_Entry
    \/ AMD_BreakOn
    \/ AMD_Hold
    \/ AMD_BreakOff
    \/ AMD_Settle
    \/ DS_Check
    \/ DS_Lookup
    \/ DS_FailWait
    \/ DS_Build
    \/ DS_Resync
    \/ ACS_Check
    \/ ACS_SendCR
    \/ ACS_Stamp
    \/ RSP_Init
    \/ RSP_Cond
    \/ RSP_Body

NextLive ==
    \/ Sketch
    \/ Tick
    \/ DeliverLive

\* The processor keeps executing the sketch, and the clock keeps advancing:
\* it is read again and again in the loop test, and moves on at some of them.
SpecLive ==
    /\ InitLive
    /\ [][NextLive]_vars
    /\ WF_vars(Sketch)
    /\ SF_vars(Tick)

----------------------------------------------------------------------------
(* MoveToPosition of the 16-positions sketch: one call *)

xbeeVars == <<pc, step, hostBaud, speed, baudRate, sendStr, rspStr, rspIndex,
              msLastCmd, now, breakOn, rxFifo, sent, failLog, outcome,
              consumed, sinceCmd, delivered, entryBaud, rspLen, brk>>

\* the largest position number a call is made with
MaxPositionNum == 18

\* the argument of the call: the sixteen positions, and numbers around them
PositionNums == -1..MaxPositionNum

\* the XBee sketch is not running
XBeeIdle ==
    /\ pc = "ds_entry"
    /\ step = "ForceMode"
    /\ hostBaud = 19200
    /\ entryBaud = hostBaud
    /\ speed = 0
    /\ baudRate = 48
    /\ sendStr = <<>>
    /\ rspStr = <<>>
    /\ rspIndex = 0
    /\ msLastCmd = U32(0, 0)
    /\ now = U32(0, 1000)
    /\ breakOn = FALSE
    /\ rxFifo = <<>>
    /\ sent = <<>>
    /\ failLog = <<>>
    /\ outcome = [s \in StepSet |-> "none"]
    /\ consumed = <<>>
    /\ sinceCmd = -1
    /\ delivered = 0
    /\ rspLen = rspStrSize
    /\ brk = [asserts |-> 0, held |-> 0]

InitMove ==
    /\ XBeeIdle
    /\ mpc = "mtp_entry"
    /\ positionNum \in PositionNums
    /\ i = 0
    /\ inA = FALSE
    /\ inB = FALSE
    /\ hlfb \in {"asserted", "deasserted"}
    /\ hlfbRead = "none"
    /\ wire = <<>>
    /\ ret = "none"
    /\ DualIdle

\* a test that lets one more position through (<= 17 for < 17)
InRange_OneMore == positionNum < 17 + 1 /\ positionNum > 0

\* positionNum < 17 && positionNum > 0
InRange == positionNum < 17 /\ positionNum > 0

\* if (positionNum < 17 && positionNum > 0) { for (int i = 0; ...
\* else return false;
MTP_Check ==
    /\ mpc = "mtp_entry"
    /\ IF InRange
       THEN /\ i' = 0
            /\ mpc' = "mtp_for"
            /\ UNCHANGED ret
       ELSE /\ ret' = "false"
            /\ mpc' = "returned"
            /\ UNCHANGED i
    /\ UNCHANGED <<positionNum, inA, inB, hlfb, hlfbRead, wire, xbeeVars, dualVars>>

\* i < positionNum
MTP_For ==
    /\ mpc = "mtp_for"
    /\ mpc' = IF i < positionNum THEN "mtp_b_on" ELSE "mtp_a_on"
    /\ UNCHANGED <<positionNum, i, inA, inB, hlfb, hlfbRead, wire, ret,
                   xbeeVars, dualVars>>

\* motor.MotorInBState(true); delay(INPUT_A_B_FILTER);
MTP_BOn ==
    /\ mpc = "mtp_b_on"
    /\ inB' = TRUE
    /\ wire' = Append(wire, <<"B", TRUE>>)
    /\ mpc' = "mtp_b_off"
    /\ UNCHANGED <<positionNum, i, inA, hlfb, hlfbRead, ret, xbeeVars, dualVars>>

\* motor.MotorInBState(false); and delay(INPUT_A_B_FILTER) begins
MTP_BOff ==
    /\ mpc = "mtp_b_off"
    /\ inB' = FALSE
    /\ wire' = Append(wire, <<"B", FALSE>>)
    /\ mpc' = "mtp_inc"
    /\ UNCHANGED <<positionNum, i, inA, hlfb, hlfbRead, ret, xbeeVars, dualVars>>

\* the delay is over; i++
MTP_Inc ==
    /\ mpc = "mtp_inc"
    /\ i' = i + 1
    /\ mpc' = "mtp_for"
    /\ UNCHANGED <<positionNum, inA, inB, hlfb, hlfbRead, wire, ret, xbeeVars,
                   dualVars>>

\* motor.MotorInAState(true); delay(INPUT_A_B_FILTER);
MTP_AOn ==
    /\ mpc = "mtp_a_on"
    /\ inA' = TRUE
    /\ wire' = Append(wire, <<"A", TRUE>>)
    /\ mpc' = "mtp_a_off"
    /\ UNCHANGED <<positionNum, i, inB, hlfb, hlfbRead, ret, xbeeVars, dualVars>>

\* motor.MotorInAState(false); delay(2 + INPUT_A_B_FILTER);
MTP_AOff ==
    /\ mpc = "mtp_a_off"
    /\ inA' = FALSE
    /\ wire' = Append(wire, <<"A", FALSE>>)
    /\ mpc' = "mtp_wait"
    /\ UNCHANGED <<positionNum, i, inB, hlfb, hlfbRead, ret, xbeeVars, dualVars>>

\* while (motor.HlfbState() != MotorDriver::HLFB_ASSERTED) continue;
\* return true;
MTP_Wait ==
    /\ mpc = "mtp_wait"
    /\ hlfbRead' = hlfb
    /\ IF hlfb = "asserted"
       THEN /\ ret' = "true"
            /\ mpc' = "returned"
       ELSE UNCHANGED <<ret, mpc>>
    /\ UNCHANGED <<positionNum, i, inA, inB, hlfb, wire, xbeeVars, dualVars>>

\* the motor changes its HLFB line while the call is under way
HlfbChange ==
    /\ mpc \notin {"idle", "returned"}
    /\ hlfb' = IF hlfb = "asserted" THEN "deasserted" ELSE "asserted"
    /\ UNCHANGED <<mpc, positionNum, i, inA, inB, hlfbRead, wire, ret,
                   xbeeVars, dualVars>>

NextMove ==
    \/ MTP_Check
    \/ MTP_For
    \/ MTP_BOn
    \/ MTP_BOff
    \/ MTP_Inc
    \/ MTP_AOn
    \/ MTP_AOff
    \/ MTP_Wait
    \/ HlfbChange

SpecMove == InitMove /\ [][NextMove]_vars

----------------------------------------------------------------------------
(* The two-axis sketch: loop and SynchronizedMove *)

\* how many calls of SynchronizedMove are followed
MaxCalls == 6

\* the distances loop passes to SynchronizedMove, in order
Distances == <<6400, 19200, -12800, -6400, -6400>>

\* the distance of the call under way
distance == Distances[(calls % Len(Distances)) + 1]

\* what HlfbState() can return with HLFB_MODE_HAS_BIPOLAR_PWM
HlfbStates == {"asserted", "deasserted", "measurement"}

\* setup has enabled both motors and has seen both HLFB lines asserted
InitDual ==
    /\ XBeeIdle
    /\ MotorIdle
    /\ dpc = <<"move", 0>>
    /\ calls = 0
    /\ enable = [m \in {0, 1} |-> TRUE]
    /\ hlfbLine = [m \in {0, 1} |-> "asserted"]
    /\ stepsDone = [m \in {0, 1} |-> TRUE]
    /\ issued = <<>>
    /\ sawDeasserted = FALSE

\* motor0.Move(distance); motor1.Move(distance);
SM_Move(m) ==
    /\ dpc = <<"move", m>>
    /\ calls < MaxCalls
    /\ issued' = Append(issued, <<m, distance>>)
    /\ stepsDone' = [stepsDone EXCEPT ![m] = FALSE]
    /\ dpc' = IF m = 0 THEN <<"move", 1>> ELSE <<"test_steps", 0>>
    /\ UNCHANGED <<calls, enable, hlfbLine, sawDeasserted, xbeeVars,
                   motorVars>>

\* the loop test, !motorN.StepsComplete() ||
SM_TestSteps(m) ==
    /\ dpc = <<"test_steps", m>>
    /\ dpc' = IF ~stepsDone[m] THEN <<"if_hlfb", 0>> ELSE <<"test_hlfb", m>>
    /\ UNCHANGED <<calls, enable, hlfbLine, stepsDone, issued, sawDeasserted,
                   xbeeVars, motorVars>>

\* the loop test, motorN.HlfbState() != MotorDriver::HLFB_ASSERTED ||
\* when all four are false the call returns
SM_TestHlfb(m) ==
    /\ dpc = <<"test_hlfb", m>>
    /\ dpc' = IF hlfbLine[m] # "asserted" THEN <<"if_hlfb", 0>>
              ELSE IF m = 0 THEN <<"test_steps", 1>>
              ELSE <<"done", 0>>
    /\ UNCHANGED <<calls, enable, hlfbLine, stepsDone, issued, sawDeasserted,
                   xbeeVars, motorVars>>

\* a shutdown test that looks at motor0 only
SM_IfHlfb_FirstOnly(m) ==
    /\ dpc = <<"if_hlfb", m>>
    /\ sawDeasserted' = (sawDeasserted \/ hlfbLine[m] = "deasserted")
    /\ dpc' = IF hlfbLine[m] = "deasserted" /\ m = 0 THEN <<"disable", 0>>
              ELSE IF m = 0 THEN <<"if_hlfb", 1>>
              ELSE <<"test_steps", 0>>
    /\ UNCHANGED <<calls, enable, hlfbLine, stepsDone, issued, xbeeVars,
                   motorVars>>

\* the loop body: the status line (which changes nothing the motors see),
\* then if (motor0.HlfbState() == MotorDriver::HLFB_DEASSERTED ||
\*          motor1.HlfbState() == MotorDriver::HLFB_DEASSERTED)
SM_IfHlfb(m) ==
    /\ dpc = <<"if_hlfb", m>>
    /\ sawDeasserted' = (sawDeasserted \/ hlfbLine[m] = "deasserted")
    /\ dpc' = IF hlfbLine[m] = "deasserted" THEN <<"disable", 0>>
              ELSE IF m = 0 THEN <<"if_hlfb", 1>>
              ELSE <<"test_steps", 0>>
    /\ UNCHANGED <<calls, enable, hlfbLine, stepsDone, issued, xbeeVars,
                   motorVars>>

\* motor0.EnableRequest(false); motor1.EnableRequest(false);
\* while (true) { continue; }
SM_Disable(m) ==
    /\ dpc = <<"disable", m>>
    /\ enable' = [enable EXCEPT ![m] = FALSE]
    /\ dpc' = IF m = 0 THEN <<"disable", 1>> ELSE <<"halt", 0>>
    /\ UNCHANGED <<calls, hlfbLine, stepsDone, issued, sawDeasserted,
                   xbeeVars, motorVars>>

\* SynchronizedMove returns; loop: delay(2000); the next call
SM_Return ==
    /\ dpc = <<"done", 0>>
    /\ calls' = calls + 1
    /\ dpc' = <<"move", 0>>
    /\ UNCHANGED <<enable, hlfbLine, stepsDone, issued, sawDeasserted,
                   xbeeVars, motorVars>>

\* a motor changes its HLFB line
HlfbLineChange ==
    /\ dpc # <<"idle", 0>>
    /\ \E m \in {0, 1}, v \in HlfbStates :
          /\ v # hlfbLine[m]
          /\ hlfbLine' = [hlfbLine EXCEPT ![m] = v]
    /\ UNCHANGED <<dpc, calls, enable, stepsDone, issued, sawDeasserted,
                   xbeeVars, motorVars>>

\* a motor has been sent all the steps of its move
StepsFinish ==
    /\ \E m \in {0, 1} :
          /\ ~stepsDone[m]
          /\ stepsDone' = [stepsDone EXCEPT ![m] = TRUE]
    /\ UNCHANGED <<dpc, calls, enable, hlfbLine, issued, sawDeasserted,
                   xbeeVars, motorVars>>

NextDual ==
    \/ SM_Move(0)
    \/ SM_Move(1)
    \/ SM_TestSteps(0)
    \/ SM_TestHlfb(0)
    \/ SM_TestSteps(1)
    \/ SM_TestHlfb(1)
    \/ SM_IfHlfb(0)
    \/ SM_IfHlfb(1)
    \/ SM_Disable(0)
    \/ SM_Disable(1)
    \/ SM_Return
    \/ HlfbLineChange
    \/ StepsFinish

SpecDual == InitDual /\ [][NextDual]_vars

----------------------------------------------------------------------------
(* DeviceSpeed against a modem that sends more than was asked for *)

\* how many times the modem puts bytes on the line in one attempt
MaxBursts == 2

BurstReplies ==
    { <<79, 75, 13, 79, 75, 13>>,                       \* OK\rOK\r
      <<79, 75, 13, 69, 82, 82, 79, 82, 13>>,           \* OK\rERROR\r
      <<79, 75>>,                                       \* OK, no terminator
      <<49, 50, 51, 52, 53, 54, 55, 56, 57, 48, 13>> }  \* 1234567890\r

DeliverBurst ==
    /\ pc = "rsp_loop"
    /\ rxFifo = <<>>
    /\ delivered < MaxBursts
    /\ \E r \in BurstReplies : rxFifo' = rxFifo \o r
    /\ delivered' = delivered + 1
    /\ UNCHANGED <<pc, step, hostBaud, speed, baudRate, sendStr, rspStr,
                   rspIndex, msLastCmd, now, breakOn, sent, failLog, outcome,
                   consumed, sinceCmd, entryBaud, rspLen, brk, motorVars,
                   dualVars>>

NextBurst ==
    \/ Sketch
    \/ Tick
    \/ DeliverBurst

SpecBurst == InitLive /\ [][NextBurst]_vars

----------------------------------------------------------------------------
(* DeviceSpeed against a modem that answers every command it receives *)

\* The clock moves on while the sketch waits for a reply with nothing to
\* read: for the whole of the read after the break, and once after a command.
TickWaiting ==
    /\ pc = "rsp_loop"
    /\ rxFifo = <<>>
    /\ step = "ForceMode" \/ sinceCmd = 0
    /\ Tick

\* The modem answers OK and a carriage return before the read has run out
\* of time.
DeliverOkInTime ==
    /\ BeforeDeadline
    /\ DeliverOk

\* After the break the modem answers in time or says nothing until the read
\* gives up; a command it answers at once or 5,000 ms later, always.
NextAnswered ==
    \/ Sketch
    \/ TickWaiting
    \/ DeliverOkInTime

SpecAnswered == InitOk /\ [][NextAnswered]_vars

----------------------------------------------------------------------------
(* What the run shows of each step *)

StepIdx(s) == CHOOSE k \in 1..Len(Steps) : Steps[k] = s

\* the strcmp after step s has been done
Classified(s) ==
    \/ StepIdx(s) < StepIdx(step)
    \/ s = step /\ pc \in {"ds_lookup", "ds_fail_wait", "ds_build",
                       "ds_resync", "done"}

\* step s was classified and exitFail was not called for it
Affirmed(s) == Classified(s) /\ s \notin Range(failLog)

\* the command of step s went to the transport, or is going
Dispatched(s) ==
    \/ outcome[s] \in {"reading", "Complete", "TimedOut"}
    \/ s = step /\ pc \in {"acs_cr", "acs_stamp", "rsp_init"}

\* some step of the attempt did not end well
AnyFailure ==
    \/ failLog # <<>>
    \/ \E s \in StepSet : outcome[s] \in {"TimedOut", "stale"}

----------------------------------------------------------------------------
(* C1 *)

\* C1 as stated: from entry until ATCN is affirmed, the host baud rate is
\* the one it had at entry.  The sketch sets the host to 9600 first.
C1_HostBaudKeptUntilExit ==
    (pc # "ds_entry" /\ ~Affirmed("ExitMode")) => hostBaud = entryBaud

\* C1 amended: the host transport is set to 9600 at entry and is not changed
\* again before the ATCN exchange has been classified: in every state from
\* just after entry up to the last statement of the procedure the host baud
\* rate is 9600.
C1_HostBaudDefaultUntilResync ==
    pc \notin {"ds_entry", "done"} => hostBaud = DEFAULT_AT_BAUD

C1_Witness ==
    /\ pc = "ds_check"
    /\ step = "ExitMode"
    /\ outcome["ExitMode"] = "Complete"
    /\ entryBaud # DEFAULT_AT_BAUD
    /\ hostBaud = DEFAULT_AT_BAUD

----------------------------------------------------------------------------
(* C2 *)

\* C2: once a command step is classified negative, no command of a later
\* step is sent and no later step failure is reported.
C2_StopsAtFirstNegative ==
    \A s \in CmdSteps, t \in CmdSteps :
        (StepIdx(s) < StepIdx(t) /\ s \in Range(failLog))
            => (~Dispatched(t) /\ t \notin Range(failLog))

----------------------------------------------------------------------------
(* C3 *)

\* C3: for a requested rate outside the supported set no byte is ever sent.
C3_NoByteForUnsupportedRate ==
    entryBaud \notin SupportedRates => sent = <<>>

----------------------------------------------------------------------------
(* C4 *)

\* C4: whatever failed during the attempt (a timeout, an ERROR reply, other
\* content, a stale dispatch), the host baud rate when the procedure returns
\* is the host baud rate at entry.
C4_HostBaudRestoredOnFailure ==
    (pc = "done" /\ AnyFailure) => hostBaud = entryBaud

C4_Witness ==
    /\ pc = "done"
    /\ "ApplyBaud" \in Range(failLog)
    /\ \E s \in StepSet : outcome[s] = "TimedOut"
    /\ entryBaud # DEFAULT_AT_BAUD
    /\ hostBaud = entryBaud

----------------------------------------------------------------------------
(* C5 *)

\* C5: an exchange whose read timed out is always classified negative,
\* whatever the response buffer holds.
C5_TimeoutIsNegative ==
    \A s \in CmdSteps :
        (Classified(s) /\ outcome[s] = "TimedOut") => s \in Range(failLog)

----------------------------------------------------------------------------
(* C6 *)

\* C6: a step whose dispatch was rejected as stale is classified negative,
\* whatever the response buffer still holds.
C6_StaleIsNegative ==
    \A s \in CmdSteps :
        (Classified(s) /\ outcome[s] = "stale") => s \in Range(failLog)

----------------------------------------------------------------------------
(* C7 *)

\* C7: a dispatch made more than 10,000 ms after msLastCmd was set sends
\* nothing, starts no read and leaves msLastCmd (and the response buffer and
\* the transport) as they are; with 10,000 ms or less the command is sent.
C7_StaleDispatchSendsNothing ==
    [][(pc = "acs_check" /\ pc' # "acs_check")
         => IF sinceCmd > TIMEOUT
            THEN /\ sent' = sent
                 /\ msLastCmd' = msLastCmd
                 /\ rspStr' = rspStr
                 /\ rxFifo' = rxFifo
                 /\ pc' = "ds_check"
                 /\ outcome'[step] = "stale"
            ELSE /\ sent' = sent \o CmdOf(step)
                 /\ pc' = "acs_cr"]_vars

C7_Witness ==
    /\ pc = "ds_check"
    /\ step = "ApplyBaud"
    /\ outcome["ApplyBaud"] = "stale"
    /\ outcome["VerifyMode"] = "Complete"
    /\ sent = AT_CMD \o <<CR>>

----------------------------------------------------------------------------
(* C8 *)

\* C8: when the reader polls before the deadline, a carriage return is next
\* in the transport and at most rspLen-1 bytes came before it, the reader
\* returns Complete and the buffer holds exactly the bytes that came before.
C8_CompleteWithinCapacity ==
    [][(/\ pc = "rsp_body"
        /\ AvailableForRead > 0
        /\ CharGet = CR
        /\ Len(consumed) <= rspLen - 1)
         => (/\ pc' = AfterReader(step)
             /\ outcome'[step] = "Complete"
             /\ rspStr' = consumed)]_vars

----------------------------------------------------------------------------
(* C9 *)

\* C9: with the buffer full (rspLen-1 bytes stored) the reader goes on taking
\* bytes out of the transport and drops them, and a carriage return taken
\* then ends the read as Complete with the truncated content.
C9_DiscardsWhenFull ==
    [][(/\ pc = "rsp_body"
        /\ AvailableForRead > 0
        /\ rspIndex = rspLen - 1
        /\ (CharGet # CR \/ Len(consumed) > Len(rspStr)))
         => (/\ rxFifo' = Tail(rxFifo)
             /\ rspStr' = rspStr
             /\ IF CharGet = CR
                THEN pc' = AfterReader(step) /\ outcome'[step] = "Complete"
                ELSE pc' = "rsp_loop")]_vars

----------------------------------------------------------------------------
(* C10 *)

\* C10: the reader returns TimedOut only when it has read no carriage return
\* and at least 10,000 ms have passed since msLastCmd was set, and the buffer
\* then holds the bytes read so far, in the order they came.
C10_TimeoutNotEarly ==
    (pc = AfterReader(step) /\ outcome[step] = "TimedOut")
        => (/\ sinceCmd >= TIMEOUT
            /\ CR \notin Range(consumed)
            /\ rspStr = consumed)

\* a timeout that fired late, with part of a reply in the buffer
C10_Witness ==
    /\ pc = AfterReader(step)
    /\ outcome[step] = "TimedOut"
    /\ sinceCmd > TIMEOUT
    /\ rspLen = rspStrSize
    /\ rspStr = OK_MSG

----------------------------------------------------------------------------
(* C11 *)

IsPrefix(p, q) == Len(p) <= Len(q) /\ SubSeq(q, 1, Len(p)) = p

\* the call of atRspReceive has done its first statements, or has returned
InReader == pc \in {"rsp_loop", "rsp_body"} \/ pc = AfterReader(step)

\* C11: during and after a call of atRspReceive with capacity rspLen >= 1 the
\* terminating NUL is at index rspIndex <= rspLen-1 (nothing is written past
\* the buffer), the content is a prefix of the bytes taken from the transport
\* in this call, holds no carriage return, and is empty when nothing was
\* taken.
C11_BufferInvariant ==
    (InReader /\ outcome[step] \in {"reading", "Complete", "TimedOut"})
        => (/\ rspIndex = Len(rspStr)
            /\ rspIndex <= rspLen - 1
            /\ IsPrefix(rspStr, consumed)
            /\ CR \notin Range(rspStr)
            /\ consumed = <<>> => rspStr = <<>>)

\* a timed-out call that filled the sketch's buffer
C11_Witness ==
    /\ pc = AfterReader(step)
    /\ outcome[step] = "TimedOut"
    /\ rspLen = rspStrSize
    /\ Len(rspStr) = rspLen - 1

----------------------------------------------------------------------------
\* the table of rates and device codes: '1'..'9' in ascending order of rate,
\* then 'A'
RateCodes ==
    { <<2400, 49>>, <<4800, 50>>, <<9600, 51>>, <<19200, 52>>, <<38400, 53>>,
      <<57600, 54>>, <<115200, 55>>, <<230400, 56>>, <<460800, 57>>,
      <<921600, 65>> }

\* the switch has been taken
LookedUp == step \in {"ApplyBaud", "Persist", "ExitMode"}

\* C12: the switch gives every supported rate its own code, the one of the
\* table (2400 '1', 4800 '2', 9600 '3', 19200 '4', 38400 '5', 57600 '6',
\* 115200 '7', 230400 '8', 460800 '9', 921600 'A'), and the command sent at
\* ApplyBaud is "ATBD", a space and that one character.
C12_RateCodeTable ==
    /\ \A x \in SupportedRates, y \in SupportedRates :
          BaudCode(x) = BaudCode(y) => x = y
    /\ (LookedUp /\ entryBaud \in SupportedRates)
          => /\ <<entryBaud, baudRate>> \in RateCodes
             /\ sendStr = <<65, 84, 66, 68, 32, baudRate>>
    /\ (Dispatched("ApplyBaud") /\ pc # "acs_cr"
                                /\ entryBaud \in SupportedRates)
          => \E c \in {rc[2] : rc \in {x \in RateCodes : x[1] = entryBaud}} :
                SubSeq(sent, 4, 10) = <<65, 84, 66, 68, 32, c, CR>>

C12_Witness ==
    /\ pc = "done"
    /\ entryBaud = 921600
    /\ baudRate = 65
    /\ Affirmed("ApplyBaud")
    /\ Len(sent) >= 10
    /\ SubSeq(sent, 4, 10) = <<65, 84, 66, 68, 32, 65, CR>>

----------------------------------------------------------------------------
\* the code the table gives rate r
CodeOf(r) == (CHOOSE rc \in RateCodes : rc[1] = r)[2]

\* AT, ATBD <code of r>, ATWR, ATCN, each followed by one carriage return
FourCommands(r) ==
    <<65, 84, 13>> \o <<65, 84, 66, 68, 32, CodeOf(r), 13>>
        \o <<65, 84, 87, 82, 13>> \o <<65, 84, 67, 78, 13>>

\* the attempt is over and the rate was a supported one
SupportedAttemptOver ==
    /\ pc = "done"
    /\ entryBaud \in SupportedRates

\* C13 as stated: against a modem that answers OK and a carriage return to
\* every command it receives, no step failure is reported, the bytes sent are
\* the four commands in order, and the host ends at the target rate.
C13_NoFailureWhenAnswered ==
    SupportedAttemptOver
        => /\ failLog = <<>>
           /\ sent = FourCommands(entryBaud)
           /\ hostBaud = entryBaud

\* C13: against a modem that answers OK and a carriage return to every
\* command it receives, the bytes sent are the four commands in order and
\* the host ends at the target rate; no failure is reported when the modem
\* has answered the break as well (five answers), and the failure of
\* ForceMode, and no other, is reported when it has said nothing after the
\* break (four answers).
C13_AnsweredCommandsSucceed ==
    SupportedAttemptOver
        => /\ sent = FourCommands(entryBaud)
           /\ hostBaud = entryBaud
           /\ \A s \in CmdSteps : outcome[s] = "Complete"
           /\ delivered \in {4, 5}
           /\ delivered = 5 => failLog = <<>>
           /\ delivered = 4 => failLog = <<"ForceMode">>

C13_Witness ==
    /\ SupportedAttemptOver
    /\ entryBaud = 19200
    /\ delivered = 4
    /\ outcome["ForceMode"] = "TimedOut"
    /\ failLog = <<"ForceMode">>
    /\ sent = FourCommands(19200)
    /\ hostBaud = 19200

----------------------------------------------------------------------------
\* the check of ForceMode has just been made, nothing has happened since
ForceModeChecked == pc = "acs_check" /\ step = "VerifyMode"

\* the attempt is over, the rate was a supported one, and the modem never
\* put a byte on the line
NeverAnswered ==
    /\ pc = "done"
    /\ entryBaud \in SupportedRates
    /\ delivered = 0

\* C14 as stated: no failure is ever reported for ForceMode, and with a
\* transport that never responds the one failure reported is VerifyMode.
C14_ForceModeNeverReported ==
    /\ "ForceMode" \notin Range(failLog)
    /\ NeverAnswered => failLog = <<"VerifyMode">>

\* C14: ForceMode has a pass/fail condition.  Once the read after the break
\* has returned, the failure of ForceMode is reported exactly when the
\* response buffer does not hold OK, and before any command byte is sent;
\* when the buffer holds OK nothing is reported and the procedure goes on to
\* the dispatch of AT.  A failure of ForceMode is always the first failure
\* reported.  With a transport that never responds the read after the break
\* times out with an empty buffer and ForceMode is the first failure
\* reported; an AT exchange that was dispatched and never answered ends by
\* timeout and is reported as the failure of VerifyMode.
C14_ForceModeChecked ==
    /\ [](ForceModeChecked
            => /\ "ForceMode" \in Range(failLog) <=> rspStr # <<79, 75>>
               /\ sent = <<>>)
    /\ [][(pc = "ds_check" /\ step = "ForceMode" /\ rspStr = <<79, 75>>)
            => /\ pc' = "acs_check"
               /\ step' = "VerifyMode"
               /\ failLog' = failLog]_vars
    /\ []("ForceMode" \in Range(failLog) => Head(failLog) = "ForceMode")
    /\ []((delivered = 0 /\ Classified("ForceMode"))
            => /\ outcome["ForceMode"] = "TimedOut"
               /\ failLog # <<>>
               /\ Head(failLog) = "ForceMode")
    /\ []((delivered = 0 /\ Classified("VerifyMode")
                          /\ Dispatched("VerifyMode"))
            => /\ outcome["VerifyMode"] = "TimedOut"
               /\ "VerifyMode" \in Range(failLog))

C14_Witness ==
    /\ ForceModeChecked
    /\ delivered = 0
    /\ outcome["ForceMode"] = "TimedOut"
    /\ rspStr = <<>>
    /\ failLog = <<"ForceMode">>
    /\ sent = <<>>

----------------------------------------------------------------------------
\* the sketch has not yet taken the break off the line
BeforeBreakOff == pc \in {"ds_entry", "amd_break_on", "amd_hold", "amd_break_off"}

\* C15: the break is asserted once, is held asserted for at least 6,000 ms
\* and is then taken off; until it is off, no response has been read and no
\* command byte has been sent, and from then on it stays off.
C15_BreakBeforeAnyExchange ==
    /\ BeforeBreakOff
          => /\ sent = <<>>
             /\ consumed = <<>>
             /\ \A s \in StepSet : outcome[s] = "none"
    /\ ~BeforeBreakOff
          => /\ ~breakOn
             /\ brk.asserts = 1
             /\ brk.held >= 6000
    /\ breakOn => pc \in {"amd_hold", "amd_break_off"}

C15_Witness ==
    /\ pc = "acs_cr"
    /\ step = "VerifyMode"
    /\ sent = <<65, 84>>
    /\ outcome["ForceMode"] \in {"Complete", "TimedOut"}
    /\ ~breakOn
    /\ brk = [asserts |-> 1, held |-> 6000]

----------------------------------------------------------------------------
IsSuffix(p, q) ==
    Len(p) <= Len(q) /\ SubSeq(q, Len(q) - Len(p) + 1, Len(q)) = p

\* C16: a dispatch that is not stale sends the command text, then one
\* carriage return, then stamps lastCommandTimestamp with the current time,
\* then reads the response against a deadline of 10,000 ms from that stamp;
\* nothing of the response is consumed before the carriage return is sent.
C16_DispatchOrder ==
    step \in CmdSteps
        => /\ pc = "acs_cr"
                 => /\ IsSuffix(CmdOf(step), sent)
                    /\ outcome[step] = "none"
           /\ pc = "acs_stamp"
                 => /\ IsSuffix(CmdOf(step) \o <<13>>, sent)
                    /\ outcome[step] = "none"
           /\ pc = "rsp_init"
                 => /\ IsSuffix(CmdOf(step) \o <<13>>, sent)
                    /\ outcome[step] = "none"
                    /\ msLastCmd = now
                    /\ sinceCmd = 0
           /\ outcome[step] \in {"reading", "Complete", "TimedOut"}
                 => IsSuffix(CmdOf(step) \o <<13>>, sent)
           /\ pc = "rsp_body" => sinceCmd < 10000
           /\ (pc = "ds_check" /\ outcome[step] = "TimedOut")
                 => sinceCmd >= 10000

C16_Witness ==
    /\ step = "ApplyBaud"
    /\ pc = "rsp_body"
    /\ sinceCmd = 5000
    /\ rxFifo # <<>>
    /\ consumed = <<>>
    /\ IsSuffix(<<65, 84, 66, 68, 32, 52, 13>>, sent)

----------------------------------------------------------------------------
\* AT, ATBD and the code c, ATWR, ATCN, a carriage return after each
CommandScript(c) ==
    <<65, 84, 13, 65, 84, 66, 68, 32, c, 13,
      65, 84, 87, 82, 13, 65, 84, 67, 78, 13>>

\* the lengths of the script after no, one, two, three and four commands
WholeCommands == {0, 3, 10, 15, 20}

\* C17: what has been sent is at all times a prefix of AT, ATBD <code>, ATWR,
\* ATCN in that order, made of whole commands whenever no dispatch is under
\* way: nothing is sent twice or out of order, and nothing is sent after a
\* command that was skipped.
C17_SentIsPrefixOfScript ==
    /\ \E c \in 48..65 : IsPrefix(sent, CommandScript(c))
    /\ pc \notin {"acs_cr", "acs_stamp"} => Len(sent) \in WholeCommands
    /\ \A s \in CmdSteps :
          outcome[s] = "stale" =>
              \A t \in CmdSteps : StepIdx(t) > StepIdx(s) => ~Dispatched(t)

C17_Witness ==
    /\ pc = "done"
    /\ sent = <<65, 84, 13>>
    /\ outcome["VerifyMode"] = "TimedOut"
    /\ outcome["ApplyBaud"] = "stale"
    /\ outcome["ExitMode"] = "stale"

----------------------------------------------------------------------------
\* C18: DeviceSpeed takes the host's rate at entry as the target, has the host
\* at 9600 from before the break is asserted until it returns, that is
\* during every command exchange, sends in ATBD the code of the rate read at
\* entry, and sets the host back to that rate when it returns.
C18_HostRateAroundTheAttempt ==
    /\ pc = "ds_entry" => hostBaud = entryBaud
    /\ pc # "ds_entry" => speed = entryBaud
    /\ (pc \notin {"ds_entry", "done"} \/ breakOn) => hostBaud = 9600
    /\ (step \in CmdSteps
          /\ pc \in {"acs_cr", "acs_stamp", "rsp_init", "rsp_loop", "rsp_body"})
          => hostBaud = 9600
    /\ (entryBaud \in SupportedRates /\ Dispatched("ApplyBaud")
                                      /\ pc # "acs_cr")
          => SubSeq(sent, 4, 10)
                = <<65, 84, 66, 68, 32, BaudCode(entryBaud), 13>>
    /\ pc = "done" => hostBaud = entryBaud

C18_Witness ==
    /\ pc = "done"
    /\ entryBaud = 115200
    /\ hostBaud = 115200
    /\ \A s \in CmdSteps : outcome[s] = "Complete"
    /\ SubSeq(sent, 4, 10) = <<65, 84, 66, 68, 32, 55, 13>>

----------------------------------------------------------------------------
\* C19: with a clock that keeps advancing, every call of the response reader
\* returns, complete or timed out, and the attempt reaches its end, whatever
\* the transport does: says nothing, streams bytes with no carriage return,
\* or fills the response buffer.
C19_Terminates ==
    /\ <>(pc = "done")
    /\ \A s \in StepSet :
          (outcome[s] = "reading") ~> (outcome[s] \in {"Complete", "TimedOut"})

\* the attempt is over; the read of VerifyMode filled the buffer, left bytes
\* on the line and timed out
C19_Witness ==
    /\ pc = "done"
    /\ outcome["VerifyMode"] = "TimedOut"
    /\ Len(rspStr) = rspStrSize - 1
    /\ rxFifo # <<>>

----------------------------------------------------------------------------
\* n pulses on input B, each a true then a false, then one pulse on input A
PulseTrain(n) ==
    [k \in 1..(2 * n + 2) |->
        IF k <= 2 * n THEN <<"B", k % 2 = 1>> ELSE <<"A", k = 2 * n + 1>>]

\* C20: a call of MoveToPosition with 1 <= positionNum <= 16 puts exactly
\* positionNum pulses on input B, then exactly one pulse on input A, and
\* returns true only after HLFB has been read asserted, which it reads only
\* after the pulses; a call with any other positionNum returns false and
\* never changes input A or input B.
C20_MoveToPosition ==
    /\ positionNum \in 1..16
          => /\ IsPrefix(wire, PulseTrain(positionNum))
             /\ hlfbRead # "none" => wire = PulseTrain(positionNum)
             /\ ret = "true" => hlfbRead = "asserted"
             /\ mpc = "returned"
                   => /\ ret = "true"
                      /\ wire = PulseTrain(positionNum)
                      /\ ~inA /\ ~inB
    /\ positionNum \notin 1..16
          => /\ wire = <<>>
             /\ ~inA /\ ~inB
             /\ mpc = "returned" => ret = "false"
             /\ mpc \in {"idle", "mtp_entry", "returned"}

C20_Witness ==
    /\ mpc = "returned"
    /\ positionNum = 16
    /\ ret = "true"
    /\ hlfbRead = "asserted"
    /\ Len(wire) = 34
    /\ wire[33] = <<"A", TRUE>>

----------------------------------------------------------------------------
\* the sketch is disabling the motors, or has done so and is in its last loop
ShuttingDown == dpc \in {<<"disable", 0>>, <<"disable", 1>>, <<"halt", 0>>}

\* C21: once the shutdown test in the wait of SynchronizedMove has read
\* either motor's HLFB deasserted, the sketch disables motor0, then motor1,
\* and stays in its last loop; no Move command is issued to either motor
\* from then on.
C21_ShutdownHalts ==
    /\ [](sawDeasserted <=> ShuttingDown)
    /\ [](dpc = <<"disable", 1>> => ~enable[0])
    /\ [](dpc = <<"halt", 0>> => ~enable[0] /\ ~enable[1])
    /\ [][sawDeasserted
            => /\ issued' = issued
               /\ sawDeasserted'
               /\ dpc = <<"halt", 0>> => dpc' = dpc /\ enable' = enable]_vars

C21_Witness ==
    /\ dpc = <<"halt", 0>>
    /\ sawDeasserted
    /\ hlfbLine[0] = "asserted"
    /\ hlfbLine[1] = "deasserted"
    /\ ~enable[0] /\ ~enable[1]
    /\ Len(issued) = 6

----------------------------------------------------------------------------
\* the Mode-Entry Sequencer has just returned
ModeEntryReturned == pc = "ds_check" /\ step = "ForceMode"

\* C22: when the Mode-Entry Sequencer returns, lastCommandTimestamp is the
\* current time, however long the drain read ran; the check of ForceMode adds
\* at most the 600 ms of a reported failure, so the dispatch of AT is not
\* stale on arrival, and it is rejected as stale only when more than
\* 10,000 ms have passed since the end of mode entry.
C22_StampAfterDrain ==
    /\ [](ModeEntryReturned => msLastCmd = now /\ sinceCmd = 0)
    /\ [][ModeEntryReturned
            => /\ pc' = "acs_check" /\ step' = "VerifyMode"
               /\ sinceCmd' <= 600
               /\ ~IsStale']_vars
    /\ [][(pc = "acs_check" /\ step = "VerifyMode"
                            /\ outcome'["VerifyMode"] = "stale")
            => sinceCmd > 10000]_vars

\* the drain read ran into its timeout, and AT has been sent all the same
C22_Witness ==
    /\ pc = "acs_cr"
    /\ step = "VerifyMode"
    /\ outcome["ForceMode"] = "TimedOut"
    /\ failLog = <<"ForceMode">>
    /\ sinceCmd = 600
    /\ sent = <<65, 84>>

----------------------------------------------------------------------------
\* no step after s has had its command sent
NothingSentAfter(s) ==
    \A t \in CmdSteps : StepIdx(t) > StepIdx(s) => ~Dispatched(t)

\* C23: once a dispatch has been rejected as stale, no later command of the
\* attempt is sent; and once an exchange has timed out, no later command of
\* the attempt is sent either.
C23_StaleIsMonotone ==
    /\ \A s \in CmdSteps : outcome[s] = "stale" => NothingSentAfter(s)
    /\ \A s \in CmdSteps : outcome[s] = "TimedOut" => NothingSentAfter(s)

----------------------------------------------------------------------------
\* C24: a call of the response reader consumes at most one carriage return
\* and nothing after it; the transport loses a byte only to a read, which
\* takes its first byte, and nothing else empties it, so what a call leaves
\* behind (bytes after the first carriage return, bytes unread at a timeout
\* or with a full buffer) is what the next call consumes first.
C24_LeftoverIsReadNext ==
    /\ [](\A k \in 1..Len(consumed) : consumed[k] = 13 => k = Len(consumed))
    /\ [](pc \in {"rsp_loop", "rsp_body"} => 13 \notin Range(consumed))
    /\ [][rxFifo' # rxFifo
            => \/ /\ pc = "rsp_body"
                  /\ rxFifo # <<>>
                  /\ rxFifo' = Tail(rxFifo)
                  /\ consumed' = Append(consumed, Head(rxFifo))
               \/ /\ IsPrefix(rxFifo, rxFifo')
                  /\ consumed' = consumed
                  /\ pc' = pc]_vars
    /\ [][consumed' # consumed
            => \/ /\ pc = "rsp_init"
                  /\ consumed' = <<>>
                  /\ rxFifo' = rxFifo
               \/ /\ rxFifo # <<>>
                  /\ consumed' = Append(consumed, Head(rxFifo))
                  /\ rxFifo' = Tail(rxFifo)]_vars

\* the modem sent once, OK\rERROR\r, before the read of VerifyMode ended;
\* that read took OK\r and the read of ApplyBaud took ERROR\r
C24_Witness ==
    /\ step = "ApplyBaud"
    /\ pc = "ds_check"
    /\ delivered = 1
    /\ outcome["VerifyMode"] = "Complete"
    /\ "VerifyMode" \notin Range(failLog)
    /\ outcome["ApplyBaud"] = "Complete"
    /\ consumed = <<69, 82, 82, 79, 82, 13>>
    /\ rxFifo = <<>>

----------------------------------------------------------------------------
\* the sketch is in atCommandSend or in atRspReceive
InExchange ==
    pc \in {"acs_check", "acs_cr", "acs_stamp", "rsp_init", "rsp_loop",
            "rsp_body"}

\* C25: the break is asserted once in an attempt; it is not asserted while
\* a command byte is sent or a response byte is read; and it is off when
\* the attempt has ended.
C25_BreakOnceAndOff ==
    /\ [](brk.asserts <= 1)
    /\ [](breakOn => ~InExchange)
    /\ [](pc = "done" => brk.asserts = 1 /\ ~breakOn)
    /\ [][(sent' # sent \/ (consumed' # consumed /\ consumed' # <<>>))
            => (~breakOn /\ ~breakOn')]_vars

C25_Witness ==
    /\ pc = "done"
    /\ brk.asserts = 1
    /\ ~breakOn
    /\ brk.held = 6000
    /\ \A s \in CmdSteps : outcome[s] = "Complete"
    /\ Len(sent) = 20

----------------------------------------------------------------------------
\* the millisecond counter has wrapped since lastCommandTimestamp was taken
WrappedSinceStamp == sinceCmd >= 0 /\ now.hi = 0 /\ msLastCmd.hi = W16 - 1

\* C26: the unsigned 32-bit difference of the current time and
\* lastCommandTimestamp is the true time passed since the stamp, also when
\* the counter has wrapped in between; so the stale check is true exactly
\* when more than 10,000 ms have passed and the reader's loop test exactly
\* when fewer than 10,000 ms have.
C26_ElapsedAcrossWrap ==
    sinceCmd >= 0
        => /\ Elapsed = [hi |-> 0, lo |-> sinceCmd]
           /\ IsStale <=> sinceCmd > 10000
           /\ BeforeDeadline <=> sinceCmd < 10000

\* the stale check is about to decide, the counter having wrapped since the
\* stamp, with exactly 10,000 ms passed
C26_Witness ==
    /\ WrappedSinceStamp
    /\ pc = "acs_check"
    /\ sinceCmd = 10000
    /\ ~IsStale
    /\ ~BeforeDeadline

====
